---- MODULE Spec2Model ----
(***************************************************************************)
(* Sentinel-2 flood mapping (opticflood_s2) and its helpers:               *)
(*   date_utilize.get_date_ranges, upload.load_s2_collection,              *)
(*   upload.get_permanent_water, filter.mask_clouds, mosaic.mosaic_s2,     *)
(*   threshold.classify_kmeans, filter.remove_small_area,                  *)
(*   rename.add_layer_name.                                                *)
(* Rasters are finite grids of pixels <<x, y>>; an image band is a record  *)
(* [val |-> pixel -> number, mask |-> set of pixels holding data].         *)
(***************************************************************************)
EXTENDS Integers, Sequences, FiniteSets, TLC

VARIABLES
    flood_event_date,   \* opticflood_s2 argument: the date text, a sequence of characters
    lag,                \* opticflood_s2 argument
    min_area,           \* opticflood_s2 argument
    pad_year,           \* platform: whether strftime('%Y') zero-pads years below 1000
    aoi,                \* opticflood_s2 argument: the set of pixels of the area of interest
    initialized,        \* whether the Earth Engine client session is initialized
    backend_calls,      \* requests sent to the Earth Engine backend so far
    pc,                 \* position in opticflood_s2
    error,              \* the exception that ended the run, "none" otherwise
    ranges,             \* get_date_ranges' result: <<post_start, post_end, ref_start, ref_end>>
    s2,                 \* load_s2_collection's result: a set of scenes
    permanent_water,    \* get_permanent_water's result: a band
    mosaicked,          \* mosaic_s2's result: a sequence of per-date mosaics
    clustered,          \* per mosaic, the cluster image the trained clusterer produced
    flood_ic,           \* step 5's collection: a sequence of per-date flood masks
    final_collection    \* steps 6 and 7's collection: the depth layers returned

vars == <<flood_event_date, lag, min_area, pad_year, aoi, initialized,
          backend_calls, pc, error, ranges, s2, permanent_water, mosaicked, clustered,
          flood_ic, final_collection>>


(***************************************************************************)
(* Bounds                                                                  *)
(***************************************************************************)
MaxLag == 10
GridW == 3
BlockW == 3
BlockH == 2

(***************************************************************************)
(* datetime: the proleptic Gregorian calendar of Python's datetime module, *)
(* as used by get_date_ranges (strptime, + timedelta, strftime).           *)
(***************************************************************************)
MINYEAR == 1
MAXYEAR == 9999

Digits == <<"0", "1", "2", "3", "4", "5", "6", "7", "8", "9">>

IsDigit(c) == \E i \in 1..10 : Digits[i] = c

DigitVal(c) == (CHOOSE i \in 1..10 : Digits[i] = c) - 1

\* a leap rule without the century exception
_is_leap_every_fourth(y) == y % 4 = 0

_is_leap(y) == y % 4 = 0 /\ (y % 100 # 0 \/ y % 400 = 0)

_DAYS_IN_MONTH == <<31, 28, 31, 30, 31, 30, 31, 31, 30, 31, 30, 31>>

_DAYS_BEFORE_MONTH == <<0, 31, 59, 90, 120, 151, 181, 212, 243, 273, 304, 334>>

_days_in_month(y, m) == IF m = 2 /\ _is_leap(y) THEN 29 ELSE _DAYS_IN_MONTH[m]

_days_before_year(year) ==
    LET y == year - 1
    IN  y * 365 + (y \div 4) - (y \div 100) + (y \div 400)

_days_before_month(y, m) ==
    _DAYS_BEFORE_MONTH[m] + (IF m > 2 /\ _is_leap(y) THEN 1 ELSE 0)

_ymd2ord(y, m, d) == _days_before_year(y) + _days_before_month(y, m) + d

_DI400Y == _days_before_year(401)
_DI100Y == _days_before_year(101)
_DI4Y == _days_before_year(5)

_MAXORDINAL == _ymd2ord(MAXYEAR, 12, 31)

\* _ord2ymd: ordinal -> <<year, month, day>>, by 400-, 100-, 4- and 1-year cycles
_ord2ymd(ordinal) ==
    LET n0   == ordinal - 1
        n400 == n0 \div _DI400Y
        r400 == n0 % _DI400Y
        n100 == r400 \div _DI100Y
        r100 == r400 % _DI100Y
        n4   == r100 \div _DI4Y
        r4   == r100 % _DI4Y
        n1   == r4 \div 365
        n    == r4 % 365
        year == n400 * 400 + 1 + n100 * 100 + n4 * 4 + n1
        leapyear == n1 = 3 /\ (n4 # 24 \/ n100 = 3)
        month0 == (n + 50) \div 32
        prec0  == _DAYS_BEFORE_MONTH[month0] + (IF month0 > 2 /\ leapyear THEN 1 ELSE 0)
        month  == IF prec0 > n THEN month0 - 1 ELSE month0
        prec   == IF prec0 > n
                  THEN prec0 - (_DAYS_IN_MONTH[month] + (IF month = 2 /\ leapyear THEN 1 ELSE 0))
                  ELSE prec0
    IN  IF n1 = 4 \/ n100 = 4
        THEN <<year - 1, 12, 31>>
        ELSE <<year, month, n - prec + 1>>

\* strptime(date_str, '%Y-%m-%d'): <<y, m, d>>, or <<>> when it raises ValueError.
\* %Y is \d\d\d\d, %m is 1[0-2]|0[1-9]|[1-9], %d is 3[01]|[12]\d|0[1-9]|[1-9];
\* text left over after the day, year 0 and a day past the month's end are errors.
MonthWidth(s) ==
    IF Len(s) >= 7 /\ s[6] = "1" /\ s[7] \in {"0", "1", "2"} THEN 2
    ELSE IF Len(s) >= 7 /\ s[6] = "0" /\ IsDigit(s[7]) /\ s[7] # "0" THEN 2
    ELSE IF Len(s) >= 6 /\ IsDigit(s[6]) /\ s[6] # "0" THEN 1
    ELSE 0

DayWidth(s, at) ==
    IF Len(s) >= at + 1 /\ s[at] = "3" /\ s[at + 1] \in {"0", "1"} THEN 2
    ELSE IF Len(s) >= at + 1 /\ s[at] \in {"1", "2"} /\ IsDigit(s[at + 1]) THEN 2
    ELSE IF Len(s) >= at + 1 /\ s[at] = "0" /\ IsDigit(s[at + 1]) /\ s[at + 1] # "0" THEN 2
    ELSE IF Len(s) >= at /\ IsDigit(s[at]) /\ s[at] # "0" THEN 1
    ELSE 0

Number(s, from, width) ==
    IF width = 1 THEN DigitVal(s[from])
    ELSE DigitVal(s[from]) * 10 + DigitVal(s[from + 1])

parse(date_str) ==
    LET s  == date_str
        mw == MonthWidth(s)
        da == 6 + mw + 1
        dw == DayWidth(s, da)
    IN  IF /\ Len(s) >= 5
           /\ \A i \in 1..4 : IsDigit(s[i])
           /\ s[5] = "-"
           /\ mw > 0
           /\ Len(s) >= 6 + mw /\ s[6 + mw] = "-"
           /\ dw > 0
           /\ Len(s) = da + dw - 1
        THEN LET y == DigitVal(s[1]) * 1000 + DigitVal(s[2]) * 100
                      + DigitVal(s[3]) * 10 + DigitVal(s[4])
                 m == Number(s, 6, mw)
                 d == Number(s, da, dw)
             IN  IF y >= MINYEAR /\ d <= _days_in_month(y, m) THEN <<y, m, d>> ELSE <<>>
        ELSE <<>>

\* strftime('%Y-%m-%d'): %m and %d are two digits; %Y is the year's decimal digits,
\* zero-padded to four only where the platform's C library pads it.
Decimal(n, width) ==
    [i \in 1..width |-> Digits[((n \div (10 ^ (width - i))) % 10) + 1]]

YearWidth(y) ==
    IF pad_year \/ y >= 1000 THEN 4
    ELSE IF y >= 100 THEN 3 ELSE IF y >= 10 THEN 2 ELSE 1

format(date_obj) ==
    Decimal(date_obj[1], YearWidth(date_obj[1])) \o <<"-">>
        \o Decimal(date_obj[2], 2) \o <<"-">> \o Decimal(date_obj[3], 2)

\* datetime + timedelta(days): <<y, m, d>>, or <<>> when it raises OverflowError
AddDays(date_obj, days) ==
    LET o == _ymd2ord(date_obj[1], date_obj[2], date_obj[3]) + days
    IN  IF 0 < o /\ o <= _MAXORDINAL THEN _ord2ymd(o) ELSE <<>>

\* the text YYYY-MM-DD of a date <<y, m, d>>: Earth Engine's Date.format('YYYY-MM-dd'),
\* which always writes four year digits
Iso(e) == Decimal(e[1], 4) \o <<"-">> \o Decimal(e[2], 2) \o <<"-">> \o Decimal(e[3], 2)

days_before_start == 30
days_before_end == 1

\* get_date_ranges(event_date_str, post_lag): [raised |-> the exception's name or "none",
\* dates |-> <<post_start_date, post_end_date, ref_start_date, ref_end_date>>]
get_date_ranges(event_date_str, post_lag) ==
    LET event_date == parse(event_date_str)
    IN  IF event_date = <<>> THEN [raised |-> "ValueError", dates |-> <<>>]
        ELSE LET ps == AddDays(event_date, 1)
                 pe == AddDays(event_date, post_lag)
                 rs == AddDays(event_date, 0 - days_before_start)
                 re == AddDays(event_date, 0 - days_before_end)
             IN  IF ps = <<>> \/ pe = <<>> \/ rs = <<>> \/ re = <<>>
                 THEN [raised |-> "OverflowError", dates |-> <<>>]
                 ELSE [raised |-> "none",
                       dates |-> <<format(ps), format(pe), format(rs), format(re)>>]

(***************************************************************************)
(* Rasters. A pixel is <<x, y>>; the pipeline's grid is one row of GridW   *)
(* pixels of 10 m. A band is [val |-> pixel -> number, mask |-> pixels     *)
(* holding data]; fractional values are rationals <<numerator,             *)
(* denominator>> with a positive denominator.                              *)
(***************************************************************************)
Pixels == {<<x, 1>> : x \in 1..GridW}

RECURSIVE Gcd(_, _)
Gcd(a, b) == IF b = 0 THEN a ELSE Gcd(b, a % b)

Abs(n) == IF n < 0 THEN 0 - n ELSE n

Rat(n, d) ==
    LET g == Gcd(Abs(n), d)
    IN  IF n = 0 THEN <<0, 1>> ELSE <<n \div g, d \div g>>

RatLess(a, b) == a[1] * b[2] < b[1] * a[2]

RatEq(a, b) == a[1] * b[2] = b[1] * a[2]

RatAdd(a, b) == Rat(a[1] * b[2] + b[1] * a[2], a[2] * b[2])

RECURSIVE RatSum(_, _)
RatSum(f, S) ==
    IF S = {} THEN <<0, 1>>
    ELSE LET p == CHOOSE q \in S : TRUE
         IN  RatAdd(f[p], RatSum(f, S \ {p}))

\* ee.Reducer.mean over the pixels S of band values f; S is not empty
Mean(f, S) ==
    LET t == RatSum(f, S)
    IN  Rat(t[1], t[2] * Cardinality(S))

\* ee.Reducer.median over a non-empty sequence of values: the middle one, or the
\* mean of the two middle ones
Rank(vals, i) ==
    Cardinality({j \in 1..Len(vals) :
        RatLess(vals[j], vals[i]) \/ (RatEq(vals[j], vals[i]) /\ j < i)}) + 1

Kth(vals, k) == vals[CHOOSE i \in 1..Len(vals) : Rank(vals, i) = k]

Median(vals) ==
    LET n == Len(vals)
    IN  IF n % 2 = 1 THEN Kth(vals, (n + 1) \div 2)
        ELSE LET t == RatAdd(Kth(vals, n \div 2), Kth(vals, n \div 2 + 1))
             IN  Rat(t[1], t[2] * 2)

\* a set of records as the sequence ordered by key field id
RECURSIVE SortById(_)
SortById(S) ==
    IF S = {} THEN <<>>
    ELSE LET first == CHOOSE a \in S : \A b \in S : a.id <= b.id
         IN  <<first>> \o SortById(S \ {first})

\* ee.List.distinct: first occurrences, in order
RECURSIVE Distinct(_)
Distinct(seq) ==
    IF seq = <<>> THEN <<>>
    ELSE LET init == Distinct(SubSeq(seq, 1, Len(seq) - 1))
             last == seq[Len(seq)]
         IN  IF \E i \in 1..Len(init) : init[i] = last THEN init ELSE Append(init, last)

(***************************************************************************)
(* upload.py: the Sentinel-2 archive and the JRC yearly water history are  *)
(* remote datasets; load_s2_collection and get_permanent_water query them. *)
(***************************************************************************)
cloud_threshold == 60

\* a date text as Earth Engine reads it (ee.Date, filterDate): days since 0001-01-01
EEDate(text) ==
    LET d == parse(text)
    IN  _ymd2ord(d[1], d[2], d[3])

\* img.clip(aoi): data outside the geometry is masked, the footprint is cut to it
clip(img, geometry) ==
    [img EXCEPT !.footprint = img.footprint \cap geometry]

\* filterBounds, filterDate (start inclusive, end exclusive), the cloud-cover filter,
\* select(['B3', 'B8', 'SCL']) and map(clip)
load_s2_collection(archive, region, start_date, end_date, threshold) ==
    { clip(img, region) :
        img \in { a \in archive :
                    /\ a.footprint \cap region # {}
                    /\ EEDate(start_date) <= a.time_start
                    /\ a.time_start < EEDate(end_date)
                    /\ a.CLOUDY_PIXEL_PERCENTAGE < threshold } }

\* the newest n records of a set by time_start: limit(n, 'system:time_start', False)
RECURSIVE Newest(_, _)
Newest(S, n) ==
    IF n = 0 \/ S = {} THEN {}
    ELSE LET top == CHOOSE a \in S : \A b \in S : b.time_start <= a.time_start
         IN  {top} \cup Newest(S \ {top}, n - 1)

\* JRC yearly history before reference_date, newest 5 years, waterClass = 3 anywhere
\* among them: .eq(3), .sum(), .unmask(0), .gt(0)
get_permanent_water(history, reference_date) ==
    LET years == Newest({h \in history :
                            /\ EEDate(Iso(<<1985, 1, 1>>)) <= h.time_start
                            /\ h.time_start < EEDate(reference_date)}, 5)
        sum(p) == Cardinality({h \in years : p \in h.footprint /\ h.waterClass[p] = 3})
    IN  [val |-> [p \in Pixels |-> IF sum(p) > 0 THEN 1 ELSE 0], mask |-> Pixels]

(***************************************************************************)
(* filter.mask_clouds and opticflood_s2._prepare                           *)
(***************************************************************************)
\* 1 where SCL is cloud shadow (3), cloud (8) or cirrus (9), else 0
mask_clouds(img) ==
    [val  |-> [p \in Pixels |->
                 IF img.SCL[p] = 3 \/ img.SCL[p] = 8 \/ img.SCL[p] = 9 THEN 1 ELSE 0],
     mask |-> img.footprint]

\* img.normalizedDifference(['B3', 'B8']): (B3 - B8) / (B3 + B8), masked where the
\* sum is 0
normalizedDifference(img) ==
    [val  |-> [p \in Pixels |->
                 IF img.B3[p] + img.B8[p] = 0 THEN <<0, 1>>
                 ELSE Rat(img.B3[p] - img.B8[p], img.B3[p] + img.B8[p])],
     mask |-> {p \in img.footprint : img.B3[p] + img.B8[p] # 0}]

_prepare(img) ==
    [id |-> img.id, time_start |-> img.time_start, footprint |-> img.footprint,
     NDWI |-> normalizedDifference(img), cloud_mask |-> mask_clouds(img)]

(***************************************************************************)
(* mosaic.mosaic_s2                                                        *)
(***************************************************************************)
\* ee.Date(time_start).format('YYYY-MM-dd')
add_date(img) == Iso(_ord2ymd(img.time_start))

\* daily.median() of one band, clipped to roi: per pixel, over the images holding
\* data there
ValuesAt(daily, band, p) ==
    LET F[i \in 0..Len(daily)] ==
            IF i = 0 THEN <<>>
            ELSE IF p \in daily[i][band].mask
                 THEN Append(F[i - 1], IF band = "NDWI" THEN daily[i][band].val[p]
                                       ELSE <<daily[i][band].val[p], 1>>)
                 ELSE F[i - 1]
    IN  F[Len(daily)]

MedianBand(daily, band, roi) ==
    LET mask == {p \in roi : ValuesAt(daily, band, p) # <<>>}
    IN  [val  |-> [p \in Pixels |->
                     IF p \in mask THEN Median(ValuesAt(daily, band, p)) ELSE <<0, 1>>],
         mask |-> mask]

\* the test with intersects in place of contains
covers_intersects(daily, roi) ==
    roi \cap UNION {daily[i].footprint : i \in 1..Len(daily)} # {}

\* merged_geometry.contains(roi): the union of the day's footprints holds the roi
covers(daily, roi) ==
    roi \subseteq UNION {daily[i].footprint : i \in 1..Len(daily)}

\* one date of mosaic_s2: <<mosaic>> when the day's scenes cover the roi, <<>> (the
\* None that removeAll drops) otherwise
ImagesOn(collection, date) ==
    LET F[i \in 0..Len(collection)] ==
            IF i = 0 THEN <<>>
            ELSE IF add_date(collection[i]) = date
                 THEN Append(F[i - 1], collection[i]) ELSE F[i - 1]
    IN  F[Len(collection)]

mosaic_on_date(collection, date, roi) ==
    LET daily == ImagesOn(collection, date)
    IN  IF covers(daily, roi)
        THEN << [date |-> date, time_start |-> EEDate(date), coverage |-> "full",
                 image_count |-> Len(daily),
                 NDWI |-> MedianBand(daily, "NDWI", roi),
                 cloud_mask |-> MedianBand(daily, "cloud_mask", roi)] >>
        ELSE <<>>

mosaic_s2(images, roi) ==
    LET collection   == SortById(images)
        unique_dates == Distinct([i \in 1..Len(collection) |-> add_date(collection[i])])
        F[i \in 0..Len(unique_dates)] ==
            IF i = 0 THEN <<>>
            ELSE F[i - 1] \o mosaic_on_date(collection, unique_dates[i], roi)
    IN  F[Len(unique_dates)]

(***************************************************************************)
(* threshold.classify_kmeans. The clusterer (ee.Clusterer.wekaKMeans       *)
(* trained on a sample) is remote; its result enters as the cluster image  *)
(* raw_cluster, one label in 0..n_clusters-1 per pixel holding NDWI.       *)
(***************************************************************************)
n_clusters == 2

\* mean NDWI of cluster i over the aoi: [defined, value]; reduceRegion gives no value
\* (null) when no pixel of the cluster holds data in the aoi
ClusterMean(ndwi, raw_cluster, region, i) ==
    LET members == {p \in ndwi.mask \cap region : raw_cluster[p] = i}
    IN  IF members = {} THEN [defined |-> FALSE, value |-> <<0, 1>>]
        ELSE [defined |-> TRUE, value |-> Mean(ndwi.val, members)]

ClusterMeans(ndwi, raw_cluster, region) ==
    [k \in 1..n_clusters |-> ClusterMean(ndwi, raw_cluster, region, k - 1)]

\* the reduction with ee.Reducer.min() in place of max()
MinMean(means) ==
    LET defd == {k \in 1..Len(means) : means[k].defined}
    IN  IF defd = {} THEN [defined |-> FALSE, value |-> <<0, 1>>]
        ELSE means[CHOOSE k \in defd :
                      \A j \in defd : ~RatLess(means[j].value, means[k].value)]

\* ee.List(means).reduce(ee.Reducer.max()): the greatest defined mean (a reducer
\* skips null inputs), null when there is none
MaxMean(means) ==
    LET defd == {k \in 1..Len(means) : means[k].defined}
    IN  IF defd = {} THEN [defined |-> FALSE, value |-> <<0, 1>>]
        ELSE means[CHOOSE k \in defd :
                      \A j \in defd : ~RatLess(means[k].value, means[j].value)]

\* ee.List(means).indexOf(max): the first index holding the maximum, from 0; -1 when
\* no element equals it
IndexOfMax(means) ==
    LET top == MaxMean(means)
        hit == {k \in 1..Len(means) :
                   means[k].defined /\ top.defined /\ RatEq(means[k].value, top.value)}
    IN  IF hit = {} THEN 0 - 1
        ELSE (CHOOSE k \in hit : \A j \in hit : k <= j) - 1

\* clustered.eq(flood_cluster).rename('flood_class')
classify_kmeans(ndwi, raw_cluster, region) ==
    LET flood_cluster == IndexOfMax(ClusterMeans(ndwi, raw_cluster, region))
    IN  [val  |-> [p \in Pixels |->
                     IF p \in ndwi.mask /\ raw_cluster[p] = flood_cluster THEN 1 ELSE 0],
         mask |-> ndwi.mask]

(***************************************************************************)
(* opticflood_s2._classify_and_mask                                        *)
(***************************************************************************)
\* the step left out
SuppressPermanentWater_skipped(flood, water) == flood

\* flood.where(permanent_water.eq(1), 0): 0 wherever the water band holds 1
SuppressPermanentWater(flood, water) ==
    [flood EXCEPT !.val = [p \in Pixels |->
        IF p \in water.mask /\ water.val[p] = 1 THEN 0 ELSE flood.val[p]]]

\* the step writing 1 in place of 0
SuppressCloud_sets(flood, cloud) ==
    [flood EXCEPT !.val = [p \in Pixels |->
        IF p \in cloud.mask /\ RatEq(cloud.val[p], <<1, 1>>) THEN 1 ELSE flood.val[p]]]

\* flood.where(cloud_mask_img.eq(1), 0): 0 wherever the mosaic's cloud band holds 1
SuppressCloud(flood, cloud) ==
    [flood EXCEPT !.val = [p \in Pixels |->
        IF p \in cloud.mask /\ RatEq(cloud.val[p], <<1, 1>>) THEN 0 ELSE flood.val[p]]]

\* image.updateMask(image.eq(1)): data only where the value is 1
KeepOnes(image) ==
    [val  |-> [p \in Pixels |-> IF p \in image.mask /\ image.val[p] = 1 THEN 1 ELSE 0],
     mask |-> {p \in image.mask : image.val[p] = 1}]

_classify_and_mask(img, raw_cluster, region, water) ==
    LET classified == classify_kmeans(img.NDWI, raw_cluster, region)
        flood0 == [classified EXCEPT !.val =
                      [p \in Pixels |-> IF classified.val[p] = 1 THEN 1 ELSE 0]]
        flood1 == SuppressPermanentWater(flood0, water)
        flood2 == SuppressCloud(flood1, img.cloud_mask)
    IN  [time_start |-> img.time_start, depth |-> KeepOnes(flood2)]

(***************************************************************************)
(* filter.remove_small_area                                                *)
(***************************************************************************)
MaxSize == 128

Min(a, b) == IF a < b THEN a ELSE b

\* ee.Number(min_area).divide(100).round(): the nearest integer, halves upwards
min_pixels(area) == (2 * area + 100) \div 200

\* the 8 neighbours of a pixel (eightConnected=True)
Neighbours(p) ==
    {<<p[1] + dx, p[2] + dy>> : dx \in {0 - 1, 0, 1}, dy \in {0 - 1, 0, 1}} \ {p}

RECURSIVE Grow(_, _, _)
Grow(seen, frontier, same) ==
    LET new == (UNION {Neighbours(f) : f \in frontier} \cap same) \ seen
    IN  IF new = {} THEN seen ELSE Grow(seen \cup new, new, same)

\* the pixels connected to p through pixels holding the same value
Patch(band, p) ==
    Grow({p}, {p}, {q \in band.mask : band.val[q] = band.val[p]})

RECURSIVE Patches(_, _)
Patches(band, todo) ==
    IF todo = {} THEN {}
    ELSE LET c == Patch(band, CHOOSE p \in todo : TRUE)
         IN  {c} \cup Patches(band, todo \ c)

\* image.connectedPixelCount(maxSize, eightConnected=True): per pixel, the size of its
\* patch, counted no further than maxSize
connectedPixelCount(band, maxSize) ==
    LET patches == Patches(band, band.mask)
        size == [c \in patches |-> Min(Cardinality(c), maxSize)]
    IN  [val  |-> [p \in DOMAIN band.val |->
                     IF p \in band.mask THEN size[CHOOSE c \in patches : p \in c] ELSE 0],
         mask |-> band.mask]

\* process_image with patch_sizes.lt in place of gte
process_image_lt(image, roi, area) ==
    LET patch_sizes == connectedPixelCount(image.depth, MaxSize)
        depth == {p \in image.depth.mask \cap roi :
                     /\ patch_sizes.val[p] < min_pixels(area)
                     /\ image.depth.val[p] # 0}
    IN  [image EXCEPT !.depth =
            [val  |-> [p \in DOMAIN image.depth.val |->
                         IF p \in depth THEN image.depth.val[p] ELSE 0],
             mask |-> depth]]

\* process_image: updateMask(patch_sizes.gte(min_pixels)).clip(roi), then
\* rename('depth').selfMask().toFloat()
process_image(image, roi, area) ==
    LET patch_sizes == connectedPixelCount(image.depth, MaxSize)
        cleaned == {p \in image.depth.mask \cap roi :
                       /\ p \in patch_sizes.mask
                       /\ patch_sizes.val[p] >= min_pixels(area)}
        depth == {p \in cleaned : image.depth.val[p] # 0}
    IN  [image EXCEPT !.depth =
            [val  |-> [p \in DOMAIN image.depth.val |->
                         IF p \in depth THEN image.depth.val[p] ELSE 0],
             mask |-> depth]]

remove_small_area(mask_collection, roi, area) ==
    [i \in 1..Len(mask_collection) |-> process_image(mask_collection[i], roi, area)]

(***************************************************************************)
(* opticflood_s2._tag and rename.add_layer_name                            *)
(***************************************************************************)
_tag(img) ==
    [time_start |-> img.time_start, depth |-> img.depth,
     source |-> "S2", sensor |-> "Sentinel-2", algorithm |-> "kmeans_ndwi_v1"]

set_layer_name(img) ==
    [time_start |-> img.time_start, depth |-> img.depth,
     source |-> img.source, sensor |-> img.sensor, algorithm |-> img.algorithm,
     layer_name |-> <<"Flood extent on ">> \o Iso(_ord2ymd(img.time_start))
                        \o <<" (", img.source, ")">>]

add_layer_name(collection) ==
    [i \in 1..Len(collection) |-> set_layer_name(collection[i])]

(***************************************************************************)
(* Inputs                                                                  *)
(***************************************************************************)
EventDates ==
    { <<2023, 7, 15>>, <<2023, 1, 1>>, <<2023, 12, 31>>, <<2023, 1, 30>>,
      <<2024, 2, 29>>, <<2024, 3, 1>>, <<2024, 2, 19>>, <<2023, 3, 1>>,
      <<2000, 3, 1>>, <<1900, 3, 1>>, <<1900, 2, 20>>, <<2100, 3, 30>>,
      <<1, 1, 1>>, <<1, 1, 31>>, <<1, 2, 1>>, <<999, 12, 31>>, <<1000, 1, 15>>,
      <<1000, 1, 31>>, <<9999, 12, 31>>, <<9999, 12, 25>>, <<9999, 12, 21>> }

MalformedDates ==
    { <<"2", "0", "2", "3", "0", "7", "1", "5">>,
      <<"2", "0", "2", "3", "-", "0", "2", "-", "3", "0">>,
      <<"2", "3", "-", "0", "7", "-", "1", "5">>,
      <<"0", "0", "0", "0", "-", "0", "1", "-", "0", "1">>,
      <<"2", "0", "2", "3", "-", "1", "3", "-", "0", "1">>,
      <<"2", "0", "2", "3", "-", "0", "7", "-", "1", "5", "T">>,
      <<>> }

Lags == {0 - 1} \cup 0..MaxLag

\* the pipeline's runs: two event dates and a malformed one
RunDates ==
    { Iso(<<2023, 7, 15>>), Iso(<<2023, 7, 16>>),
      <<"2", "0", "2", "3", "0", "7", "1", "5">> }

RunLags == {0 - 1, 0, 2, 3}

RunAreas == {0, 200}

Left == {p \in Pixels : p[1] < GridW}
Right == {p \in Pixels : p[1] > 1}
Column(x) == {p \in Pixels : p[1] = x}

Day(d) == _ymd2ord(2023, 7, d)

\* a Sentinel-2 scene: reflectance 3/1 (green/near infrared) on water, 2/2 on wet
\* ground, 0/0 where dark, 1/3 elsewhere; SCL 3, 8 or 9 on shadow, cloud, cirrus
Scene(id, day, footprint, cloudy, water, wet, dark, shadow, cloud, cirrus) ==
    [id |-> id, time_start |-> Day(day), footprint |-> footprint,
     CLOUDY_PIXEL_PERCENTAGE |-> cloudy,
     B3  |-> [p \in Pixels |-> IF p \in dark THEN 0 ELSE IF p \in water THEN 3
                               ELSE IF p \in wet THEN 2 ELSE 1],
     B8  |-> [p \in Pixels |-> IF p \in dark THEN 0 ELSE IF p \in water THEN 1
                               ELSE IF p \in wet THEN 2 ELSE 3],
     SCL |-> [p \in Pixels |-> IF p \in shadow THEN 3 ELSE IF p \in cloud THEN 8
                               ELSE IF p \in cirrus THEN 9
                               ELSE IF p \in water THEN 6 ELSE 4]]

\* the scenes the archive may hold
Catalogue ==
    { Scene(1, 16, Pixels, 20, Right, {}, {}, {}, {}, {}),
      Scene(2, 16, Left, 30, Column(1), {}, {}, {}, Column(1), {}),
      Scene(3, 16, Right, 10, Column(GridW), {}, {}, Column(GridW), {}, {}),
      Scene(4, 17, Pixels, 40, {}, Column(2), {}, {}, {}, Column(2)),
      Scene(5, 17, Pixels, 80, Column(1), {}, {}, {}, Right, {}),
      Scene(6, 18, Pixels, 10, {}, {}, {}, {}, {}, {}),
      Scene(7, 17, Pixels, 5, {}, {}, Pixels, {}, {}, {}) }

\* a JRC yearly history: one image per year 2017..2022, waterClass 3 (permanent) on
\* permanent[year], 2 (seasonal) on seasonal[year], 1 elsewhere
History(permanent, seasonal) ==
    { [time_start |-> _ymd2ord(y, 1, 1), footprint |-> Pixels,
       waterClass |-> [p \in Pixels |-> IF p \in permanent[y] THEN 3
                                        ELSE IF p \in seasonal[y] THEN 2 ELSE 1]]
      : y \in 2017..2022 }

NoWater == [y \in 2017..2022 |-> {}]

Histories ==
    { History(NoWater, NoWater),
      History([NoWater EXCEPT ![2020] = Column(2)], [NoWater EXCEPT ![2021] = Column(1)]),
      History([NoWater EXCEPT ![2017] = Column(GridW), ![2022] = Column(1)], NoWater) }

use_reference_for_permwater == TRUE

NoBand == [val |-> [p \in Pixels |-> 0], mask |-> {}]

(***************************************************************************)
(* Actions: opticflood_s2, step by step                                    *)
(***************************************************************************)
\* _ensure_ee_initialized: the probe ee.Number(1).getInfo() is a request to the
\* backend; without a session it raises and ee.Initialize() runs, which may raise
EnsureInit ==
    /\ pc = "init"
    /\ \E ok \in BOOLEAN :
          IF initialized
          THEN /\ ok
               /\ backend_calls' = backend_calls + 1
               /\ UNCHANGED <<initialized, error>>
               /\ pc' = "dates"
          ELSE IF ok
               THEN /\ initialized' = TRUE
                    /\ backend_calls' = backend_calls + 1
                    /\ error' = error
                    /\ pc' = "dates"
               ELSE /\ error' = "EEException"
                    /\ pc' = "error"
                    /\ UNCHANGED <<initialized, backend_calls>>
    /\ UNCHANGED <<flood_event_date, lag, min_area, pad_year, aoi,
                   ranges, s2, permanent_water, mosaicked, clustered, flood_ic, final_collection>>

\* step 1: get_date_ranges(flood_event_date, lag)
GetDateRanges ==
    /\ pc = "dates"
    /\ LET r == get_date_ranges(flood_event_date, lag)
       IN  IF r.raised # "none"
           THEN /\ pc' = "error"
                /\ error' = r.raised
                /\ ranges' = <<>>
           ELSE /\ pc' = "load"
                /\ error' = "none"
                /\ ranges' = r.dates
    /\ UNCHANGED <<flood_event_date, lag, min_area, pad_year, aoi, initialized,
                   backend_calls, s2, permanent_water, mosaicked,
                   clustered, flood_ic, final_collection>>

\* step 2: load_s2_collection(aoi, post_start_date, post_end_date, cloud_threshold)
LoadS2 ==
    /\ pc = "load"
    /\ \E archive \in SUBSET Catalogue :
          s2' = load_s2_collection(archive, aoi, ranges[1], ranges[2], cloud_threshold)
    /\ pc' = "water"
    /\ UNCHANGED <<flood_event_date, lag, min_area, pad_year, aoi, initialized,
                   backend_calls, error, ranges, permanent_water,
                   mosaicked, clustered, flood_ic, final_collection>>

\* step 2, second half: get_permanent_water(ref_start_date)
GetPermanentWater ==
    /\ pc = "water"
    /\ \E history \in Histories :
          permanent_water' = get_permanent_water(history,
              IF use_reference_for_permwater THEN ranges[3] ELSE ranges[1])
    /\ pc' = "mosaic"
    /\ UNCHANGED <<flood_event_date, lag, min_area, pad_year, aoi, initialized,
                   backend_calls, error, ranges, s2, mosaicked,
                   clustered, flood_ic, final_collection>>

\* steps 3 and 4: s2.map(_prepare), mosaic_s2(ndwi_collection, aoi)
Mosaic ==
    /\ pc = "mosaic"
    /\ mosaicked' = mosaic_s2({_prepare(img) : img \in s2}, aoi)
    /\ pc' = IF mosaicked' = <<>> THEN "filter" ELSE "classify"
    /\ UNCHANGED <<flood_event_date, lag, min_area, pad_year, aoi, initialized,
                   backend_calls, error, ranges, s2, permanent_water,
                   clustered, flood_ic, final_collection>>

\* step 5: mosaicked.map(_classify_and_mask), one mosaic at a time. The cluster image
\* is whatever the trained clusterer yields. With no mean defined indexOf is asked for
\* a null: the computation fails, and with it the whole collection, or finds nothing.
ClassifyAndMask ==
    /\ pc = "classify"
    /\ LET img == mosaicked[Len(flood_ic) + 1]
       IN  \E raw_cluster \in [img.NDWI.mask -> 0..(n_clusters - 1)] :
           \E raises \in BOOLEAN :
              LET means == ClusterMeans(img.NDWI, raw_cluster, aoi)
              IN  IF raises
                  THEN /\ \A k \in 1..n_clusters : ~means[k].defined
                       /\ pc' = "error"
                       /\ error' = "EEException"
                       /\ clustered' = <<>>
                       /\ flood_ic' = <<>>
                  ELSE /\ clustered' = Append(clustered, raw_cluster)
                       /\ flood_ic' = Append(flood_ic,
                              _classify_and_mask(img, raw_cluster, aoi, permanent_water))
                       /\ pc' = IF Len(flood_ic') = Len(mosaicked)
                                THEN "filter" ELSE "classify"
                       /\ error' = error
    /\ UNCHANGED <<flood_event_date, lag, min_area, pad_year, aoi, initialized,
                   backend_calls, ranges, s2, permanent_water, mosaicked,
                   final_collection>>

\* step 6: remove_small_area(flood_ic, aoi, min_area)
RemoveSmallArea ==
    /\ pc = "filter"
    /\ final_collection' = remove_small_area(flood_ic, aoi, min_area)
    /\ pc' = "tag"
    /\ UNCHANGED <<flood_event_date, lag, min_area, pad_year, aoi, initialized,
                   backend_calls, error, ranges, s2, permanent_water,
                   mosaicked, clustered, flood_ic>>

\* step 7: flood_ic.map(_tag), add_layer_name(flood_ic), return
TagAndName ==
    /\ pc = "tag"
    /\ final_collection' = add_layer_name(
           [i \in 1..Len(final_collection) |-> _tag(final_collection[i])])
    /\ pc' = "done"
    /\ UNCHANGED <<flood_event_date, lag, min_area, pad_year, aoi, initialized,
                   backend_calls, error, ranges, s2, permanent_water,
                   mosaicked, clustered, flood_ic>>

(***************************************************************************)
(* Specifications                                                          *)
(***************************************************************************)
Init ==
    /\ flood_event_date \in RunDates
    /\ lag \in RunLags
    /\ min_area \in RunAreas
    /\ pad_year = FALSE
    /\ aoi \in {Pixels, Left}
    /\ initialized \in BOOLEAN
    /\ backend_calls = 0
    /\ pc = "init"
    /\ error = "none"
    /\ ranges = <<>>
    /\ s2 = {}
    /\ permanent_water = NoBand
    /\ mosaicked = <<>>
    /\ clustered = <<>>
    /\ flood_ic = <<>>
    /\ final_collection = <<>>

Next ==
    \/ EnsureInit
    \/ GetDateRanges
    \/ LoadS2
    \/ GetPermanentWater
    \/ Mosaic
    \/ ClassifyAndMask
    \/ RemoveSmallArea
    \/ TagAndName

Spec == Init /\ [][Next]_vars

\* get_date_ranges on its own, over the calendar's corner cases
InitDates ==
    /\ flood_event_date \in {Iso(e) : e \in EventDates} \cup MalformedDates
    /\ lag \in Lags
    /\ min_area = 10000
    /\ pad_year \in BOOLEAN
    /\ aoi = Pixels
    /\ initialized = TRUE
    /\ backend_calls = 1
    /\ pc = "dates"
    /\ error = "none"
    /\ ranges = <<>>
    /\ s2 = {}
    /\ permanent_water = NoBand
    /\ mosaicked = <<>>
    /\ clustered = <<>>
    /\ flood_ic = <<>>
    /\ final_collection = <<>>

NextDates == GetDateRanges

SpecDates == InitDates /\ [][NextDates]_vars

\* remove_small_area on its own: every mask of a BlockW x BlockH block, a 3 x 3
\* square, and patches around the connected-pixel cap
Block == (1..BlockW) \X (1..BlockH)

Square3 == (1..3) \X (1..3)

Strip(n) == {<<x, 1>> : x \in 1..n}

CapRegion == (1..(MaxSize + 2)) \X (1..3)

CapMasks ==
    UNION { { Strip(n),
              Strip(n) \cup {<<1, 3>>},
              Strip(n - 1) \cup {<<n, 2>>} } : n \in (MaxSize - 1)..(MaxSize + 2) }

FilterInputs ==
    {[region |-> Block, mask |-> m] : m \in SUBSET Block}
        \cup {[region |-> Square3, mask |-> Square3]}
        \cup {[region |-> CapRegion, mask |-> m] : m \in CapMasks}

FilterAreas ==
    {0 - 100, 0, 100, 149, 150, 250, 300, 10000, 12700, 12800, 12849, 12850, 12900, 20000}

FloodMask(region, mask) ==
    [time_start |-> Day(16),
     depth |-> [val |-> [p \in region |-> IF p \in mask THEN 1 ELSE 0], mask |-> mask]]

InitFilter ==
    /\ flood_event_date = Iso(<<2023, 7, 15>>)
    /\ lag = 3
    /\ min_area \in FilterAreas
    /\ pad_year = FALSE
    /\ initialized = TRUE
    /\ backend_calls = 1
    /\ pc = "filter"
    /\ error = "none"
    /\ ranges = get_date_ranges(flood_event_date, lag).dates
    /\ s2 = {}
    /\ permanent_water = NoBand
    /\ mosaicked = <<>>
    /\ clustered = <<>>
    /\ \E in \in FilterInputs :
          /\ aoi = in.region
          /\ flood_ic = <<FloodMask(in.region, in.mask)>>
    /\ final_collection = <<>>

NextFilter == RemoveSmallArea

SpecFilter == InitFilter /\ [][NextFilter]_vars

(***************************************************************************)
(* The calendar, day by day: the reference the date ranges are held to     *)
(***************************************************************************)
LeapYear(y) == IF y % 400 = 0 THEN TRUE ELSE IF y % 100 = 0 THEN FALSE ELSE y % 4 = 0

MonthLength(y, m) ==
    IF m \in {4, 6, 9, 11} THEN 30
    ELSE IF m = 2 THEN (IF LeapYear(y) THEN 29 ELSE 28)
    ELSE 31

NextDay(e) ==
    IF e[3] < MonthLength(e[1], e[2]) THEN <<e[1], e[2], e[3] + 1>>
    ELSE IF e[2] < 12 THEN <<e[1], e[2] + 1, 1>>
    ELSE <<e[1] + 1, 1, 1>>

PrevDay(e) ==
    IF e[3] > 1 THEN <<e[1], e[2], e[3] - 1>>
    ELSE IF e[2] > 1 THEN <<e[1], e[2] - 1, MonthLength(e[1], e[2] - 1)>>
    ELSE <<e[1] - 1, 12, 31>>

RECURSIVE Shift(_, _)
Shift(e, n) ==
    IF n = 0 THEN e
    ELSE IF n > 0 THEN Shift(NextDay(e), n - 1)
    ELSE Shift(PrevDay(e), n + 1)

ExpectedRanges(e, l) ==
    <<Iso(Shift(e, 1)), Iso(Shift(e, l)), Iso(Shift(e, 0 - 30)), Iso(Shift(e, 0 - 1))>>

\* all four dates of the result lie in the years 1000 to 9999
FourDigitYears(e, l) ==
    /\ Shift(e, 0 - 30)[1] >= 1000
    /\ Shift(e, IF l > 1 THEN l ELSE 1)[1] <= MAXYEAR

(***************************************************************************)
(* C1                                                                      *)
(***************************************************************************)
\* C1 as stated: for every valid event date E and every lag L >= 0,
\* get_date_ranges(E, L) returns (E+1 day, E+L days, E-30 days, E-1 day) as
\* YYYY-MM-DD texts.
C1AsStated ==
    \A e \in EventDates :
        (flood_event_date = Iso(e) /\ lag >= 0 /\ pc # "dates")
            => (pc = "load" /\ ranges = ExpectedRanges(e, lag))

\* C1, amended: for every valid event date E and every lag L >= 0 such that E-30 days
\* is not before 1000-01-01 and E+max(L, 1) days is not after 9999-12-31,
\* get_date_ranges(E, L) returns exactly (E+1 day, E+L days, E-30 days, E-1 day) as
\* YYYY-MM-DD texts, by exact calendar arithmetic across month, year and leap-day
\* boundaries.
C1DateRanges ==
    \A e \in EventDates :
        (flood_event_date = Iso(e) /\ lag >= 0 /\ pc # "dates" /\ FourDigitYears(e, lag))
            => (pc = "load" /\ error = "none" /\ ranges = ExpectedRanges(e, lag))

\* the leap day is the end of a post window that starts in the same February
C1Witness ==
    /\ pc = "load"
    /\ flood_event_date = Iso(<<2024, 2, 19>>)
    /\ lag = 10
    /\ ranges = <<Iso(<<2024, 2, 20>>), Iso(<<2024, 2, 29>>),
                  Iso(<<2024, 1, 20>>), Iso(<<2024, 2, 18>>)>>

(***************************************************************************)
(* C2                                                                      *)
(***************************************************************************)
\* the mosaics classified so far, by position
Classified == 1..Len(flood_ic)

\* step 5 is under way or just over
Classifying == pc \in {"classify", "filter"}

M0(i) == ClusterMean(mosaicked[i].NDWI, clustered[i], aoi, 0)
M1(i) == ClusterMean(mosaicked[i].NDWI, clustered[i], aoi, 1)

\* the cluster with the greater mean, cluster 0 on a tie
GreaterMean(i) == IF RatLess(M0(i).value, M1(i).value) THEN 1 ELSE 0

\* pixels the suppression steps leave alone
Unsuppressed(i) ==
    {p \in mosaicked[i].NDWI.mask :
        /\ permanent_water.val[p] # 1
        /\ ~(p \in mosaicked[i].cloud_mask.mask
             /\ RatEq(mosaicked[i].cloud_mask.val[p], <<1, 1>>))}

\* C2: with two clusters of means m0 and m1, the flood mask of classify_kmeans equals
\* (cluster = 1) pixel for pixel when m0 < m1, (cluster = 0) when m1 < m0, and
\* (cluster = 0) when m0 = m1; the date then yields its flood layer (no error), whose
\* pixels outside cloud and permanent water are exactly those of that cluster.
C2FloodCluster ==
    \A i \in Classified :
        (Classifying /\ M0(i).defined /\ M1(i).defined) =>
            /\ \A p \in mosaicked[i].NDWI.mask :
                  classify_kmeans(mosaicked[i].NDWI, clustered[i], aoi).val[p] = 1
                      <=> clustered[i][p] = GreaterMean(i)
            /\ \A p \in Unsuppressed(i) :
                  p \in flood_ic[i].depth.mask <=> clustered[i][p] = GreaterMean(i)
            /\ error = "none"

\* a mosaic whose two clusters have equal means, both holding pixels: cluster 0 floods
C2Witness ==
    \E i \in Classified :
        /\ M0(i).defined /\ M1(i).defined
        /\ RatEq(M0(i).value, M1(i).value)
        /\ flood_ic[i].depth.mask # {}
        /\ \E p \in mosaicked[i].NDWI.mask : clustered[i][p] = 1

(***************************************************************************)
(* C3                                                                      *)
(***************************************************************************)
\* the acquisition days the archive may hold, and one it never holds
Days == {Day(d) : d \in 15..19}

ScenesOn(day) == {s \in s2 : s.time_start = day}

\* every pixel of the aoi lies in the footprint of some scene of the day
FullyCovered(day) == \A p \in aoi : \E s \in ScenesOn(day) : p \in s.footprint

MosaicsOf(day) == {i \in 1..Len(mosaicked) : mosaicked[i].date = Iso(_ord2ymd(day))}

\* mosaic_s2 has just returned (s2 and mosaicked do not change afterwards)
Mosaicked == pc \in {"classify", "filter"} /\ flood_ic = <<>>

\* C3: mosaic_s2 yields exactly one mosaic for each acquisition date whose same-date
\* footprints together contain the whole AOI and none for any other date; a partly
\* covered date is dropped without an error, and a date without scenes never appears.
C3Coverage ==
    Mosaicked =>
        /\ \A day \in Days :
              Cardinality(MosaicsOf(day)) =
                  IF ScenesOn(day) # {} /\ FullyCovered(day) THEN 1 ELSE 0
        /\ \A i \in 1..Len(mosaicked) : \E day \in Days : i \in MosaicsOf(day)
        /\ error = "none"

\* two dates with scenes: one covers the AOI and has its mosaic, the other covers a
\* part of it and has none
C3Witness ==
    /\ pc = "classify"
    /\ Len(mosaicked) = 1
    /\ \E day \in Days :
          /\ ScenesOn(day) # {}
          /\ ~FullyCovered(day)
          /\ MosaicsOf(day) = {}

(***************************************************************************)
(* C4                                                                      *)
(***************************************************************************)
CloudAt(i, p) ==
    /\ p \in mosaicked[i].cloud_mask.mask
    /\ RatEq(mosaicked[i].cloud_mask.val[p], <<1, 1>>)

\* C4: in every layer opticflood_s2 returns, no pixel with CloudMask = 1 in that date's
\* mosaic and no pixel with PermanentWaterMask = 1 is set, whatever its cluster; every
\* set pixel is 1 and belongs to the date's flood cluster.
C4NoCloudNoWater ==
    pc \in {"tag", "done"} =>
        /\ Len(final_collection) = Len(mosaicked)
        /\ \A i \in 1..Len(final_collection) :
              \A p \in final_collection[i].depth.mask :
                  /\ ~CloudAt(i, p)
                  /\ permanent_water.val[p] # 1
                  /\ final_collection[i].depth.val[p] = 1
                  /\ clustered[i][p] = IndexOfMax(ClusterMeans(mosaicked[i].NDWI,
                                                               clustered[i], aoi))

\* a returned layer keeps a flood pixel while a cloudy pixel and a permanent-water
\* pixel of the flood cluster are left out of it
C4Witness ==
    /\ pc = "done"
    /\ \E i \in 1..Len(final_collection) :
          LET fc == IndexOfMax(ClusterMeans(mosaicked[i].NDWI, clustered[i], aoi))
          IN  /\ final_collection[i].depth.mask # {}
              /\ \E p \in mosaicked[i].NDWI.mask :
                    clustered[i][p] = fc /\ CloudAt(i, p)
              /\ \E p \in mosaicked[i].NDWI.mask :
                    clustered[i][p] = fc /\ permanent_water.val[p] = 1

(***************************************************************************)
(* C5                                                                      *)
(***************************************************************************)
BinaryMasks == {[val |-> v, mask |-> Pixels] : v \in [Pixels -> {0, 1}]}

\* C5: for every binary flood mask, with the run's permanent-water mask and each
\* mosaic's cloud mask, the two suppressions give the same mask in either order, each
\* applied twice gives what it gives once, and the date's FloodMask is that mask.
C5Suppression ==
    \A i \in Classified :
        Classifying =>
        LET w == permanent_water
            c == mosaicked[i].cloud_mask
            k == classify_kmeans(mosaicked[i].NDWI, clustered[i], aoi)
        IN  /\ \A f \in BinaryMasks :
                  /\ SuppressCloud(SuppressPermanentWater(f, w), c)
                        = SuppressPermanentWater(SuppressCloud(f, c), w)
                  /\ SuppressPermanentWater(SuppressPermanentWater(f, w), w)
                        = SuppressPermanentWater(f, w)
                  /\ SuppressCloud(SuppressCloud(f, c), c) = SuppressCloud(f, c)
            /\ flood_ic[i].depth = KeepOnes(SuppressPermanentWater(SuppressCloud(k, c), w))
            /\ flood_ic[i].depth = KeepOnes(SuppressCloud(SuppressPermanentWater(
                   SuppressCloud(SuppressPermanentWater(k, w), c), w), c))

\* a classified mosaic with a pixel that is cloud and permanent water at once, and
\* another pixel flooded
C5Witness ==
    \E i \in Classified :
        /\ \E p \in Pixels : CloudAt(i, p) /\ permanent_water.val[p] = 1
        /\ flood_ic[i].depth.mask # {}

(***************************************************************************)
(* C9                                                                      *)
(***************************************************************************)
InvalidInput == parse(flood_event_date) = <<>> \/ lag < 0 \/ min_area <= 0

\* C9: on a malformed event date, a negative lag or a non-positive min_area,
\* opticflood_s2 fails before any request reaches the backend: no backend call has
\* happened, the run gets no further than its checks and ends in an error.
C9FailFast ==
    InvalidInput =>
        /\ backend_calls = 0
        /\ pc \in {"init", "dates", "error"}

(***************************************************************************)
(* C10                                                                     *)
(***************************************************************************)
UndefinedMean(i) == ~M0(i).defined \/ ~M1(i).defined

\* C10: a date with an undefined cluster mean ends in a reported failure: no flood
\* mask is built for it from a flood cluster chosen regardless, and the failure stays
\* with that date: the run is not aborted and the other dates keep their layers.
C10UndefinedMean ==
    /\ \A i \in Classified : ~UndefinedMean(i)
    /\ (pc = "error" => mosaicked = <<>>)

(***************************************************************************)
(* C6, C7, C8                                                              *)
(***************************************************************************)
Filtered == pc \in {"tag", "done"}

\* the true size of the flood patch of pixel p in the i-th flood mask
PatchSize(i, p) == Cardinality(Patch(flood_ic[i].depth, p))

\* C6: the pixel threshold is T = round(min_area / 100), 100 for min_area = 10000 and
\* one fixed value for min_area = 250; a flood pixel is retained iff its 8-connected
\* patch holds at least T pixels, retained pixels are 1 and all others unset; a 3 x 3
\* mask with min_area = 10000 leaves an empty layer.
C6PatchThreshold ==
    /\ min_pixels(10000) = 100
    /\ min_pixels(250) \in {2, 3}
    /\ Filtered =>
          \A i \in 1..Len(final_collection) :
              /\ final_collection[i].depth.mask =
                    {p \in flood_ic[i].depth.mask : PatchSize(i, p) >= min_pixels(min_area)}
              /\ \A p \in final_collection[i].depth.mask :
                    final_collection[i].depth.val[p] = 1

\* C7: a patch of more than 128 pixels counts as meeting the threshold: whatever
\* min_area is, every pixel of such a patch is retained.
C7AboveCapRetained ==
    Filtered =>
        \A i \in 1..Len(final_collection) :
            \A p \in flood_ic[i].depth.mask :
                PatchSize(i, p) > MaxSize => p \in final_collection[i].depth.mask

\* C8: for a fixed flood mask and min_area values a <= b, the pixels retained with b
\* are among those retained with a, so raising min_area never retains more pixels.
C8Monotonic ==
    Filtered =>
        \A i \in 1..Len(final_collection) :
            \A b \in FilterAreas \cup RunAreas :
                b >= min_area =>
                    LET retained_b == process_image(flood_ic[i], aoi, b).depth.mask
                    IN  /\ retained_b \subseteq final_collection[i].depth.mask
                        /\ Cardinality(retained_b)
                              <= Cardinality(final_collection[i].depth.mask)

\* a mask with min_area = 100 keeps all its flood pixels; at 300 it keeps some of
\* them and drops others
C8Witness ==
    /\ pc = "tag"
    /\ min_area = 100
    /\ final_collection[1].depth.mask = flood_ic[1].depth.mask
    /\ LET at300 == process_image(flood_ic[1], aoi, 300).depth.mask
       IN  at300 # {} /\ at300 # final_collection[1].depth.mask

====
